---------------------------- MODULE Spec2Model ----------------------------
(***************************************************************************)
(* A model of shuffle_mcq.py: the line-oriented MCQ block parser           *)
(* (parse_questions), the shuffle-and-remap transform (shuffle_questions), *)
(* the three renderers and the file-writing driver (process_file).         *)
(*                                                                         *)
(* A text line is a sequence of one-character strings, so that the three   *)
(* regular expressions and the renderers work on characters: what a        *)
(* rendered line parses back to is computed, not assumed.                  *)
(*                                                                         *)
(* Beside some definitions stands a variant that makes one slip (such as   *)
(* DiscardLineSkipBlank beside DiscardLine): a property that the code      *)
(* decides fails when the variant takes the place of the definition.       *)
(***************************************************************************)
EXTENDS Naturals, Sequences, FiniteSets

(***************************************************************************)
(* Bounds of the model.                                                    *)
(***************************************************************************)
\* the most lines the line-by-line specification feeds to the parser
MaxFed == 7
\* the most of them that are no start line, choice line or Answer line of a
\* block
MaxLoose == 1

(***************************************************************************)
(* Characters.  \s is modelled by the space, \d by the ten ASCII digits.   *)
(***************************************************************************)
IsSpace(c) == c = " "

Digits == <<"0", "1", "2", "3", "4", "5", "6", "7", "8", "9">>

IsDigit(c) == \E k \in 1..10 : Digits[k] = c

\* str.upper() on the letters the model's lines use
Upper(c) ==
  CASE c = "a" -> "A" [] c = "b" -> "B" [] c = "c" -> "C" [] c = "d" -> "D"
    [] c = "n" -> "N" [] c = "s" -> "S" [] c = "w" -> "W" [] c = "e" -> "E"
    [] c = "r" -> "R" [] OTHER -> c

\* the class [A-D] of CHOICE_RE
ChoiceLetterAE(c) == c \in {"A", "B", "C", "D", "E"}

ChoiceLetter(c) == c \in {"A", "B", "C", "D"}

\* the class [A-D] of ANSWER_RE, under re.IGNORECASE
AnswerLetter(c) == Upper(c) \in {"A", "B", "C", "D"}

\* the first position >= k of line that holds no white space (Len+1: none)
RECURSIVE SkipSpace(_, _)
SkipSpace(line, k) ==
  IF k <= Len(line) /\ IsSpace(line[k]) THEN SkipSpace(line, k + 1) ELSE k

\* the first position >= k of line that holds no digit
RECURSIVE SkipDigits(_, _)
SkipDigits(line, k) ==
  IF k <= Len(line) /\ IsDigit(line[k]) THEN SkipDigits(line, k + 1) ELSE k

\* line[k..] (the whole rest of the line, which (.*)$ captures)
Rest(line, k) == SubSeq(line, k, Len(line))

\* line.strip() == ""
IsBlank(line) == SkipSpace(line, 1) > Len(line)

NoMatch == [ok |-> FALSE, g1 |-> <<>>, g2 |-> <<>>]

\* QUESTION_START_RE = ^\s*(\d+)\.\s*(.*)$
QUESTION_START_RE(line) ==
  LET a == SkipSpace(line, 1)
      b == SkipDigits(line, a)
  IN  IF b > a /\ b <= Len(line) /\ line[b] = "."
      THEN [ok |-> TRUE, g1 |-> SubSeq(line, a, b - 1),
            g2 |-> Rest(line, SkipSpace(line, b + 1))]
      ELSE NoMatch

\* CHOICE_RE = ^\s*([A-D])\.\s+(.*)$
CHOICE_RE(line) ==
  LET a == SkipSpace(line, 1)
  IN  IF /\ a + 2 <= Len(line)
         /\ ChoiceLetter(line[a])
         /\ line[a + 1] = "."
         /\ IsSpace(line[a + 2])
      THEN [ok |-> TRUE, g1 |-> <<line[a]>>,
            g2 |-> Rest(line, SkipSpace(line, a + 2))]
      ELSE NoMatch

AnswerWord == <<"A", "N", "S", "W", "E", "R">>

\* ANSWER_RE = ^\s*answer\s*:\s*([A-D])\s*$ with re.IGNORECASE
ANSWER_RE(line) ==
  LET a == SkipSpace(line, 1)
      b == SkipSpace(line, a + 6)
      c == SkipSpace(line, b + 1)
  IN  IF /\ a + 5 <= Len(line)
         /\ \A k \in 1..6 : Upper(line[a + k - 1]) = AnswerWord[k]
         /\ b <= Len(line) /\ line[b] = ":"
         /\ c <= Len(line) /\ AnswerLetter(line[c])
         /\ SkipSpace(line, c + 1) > Len(line)
      THEN [ok |-> TRUE, g1 |-> <<line[c]>>, g2 |-> <<>>]
      ELSE NoMatch

(***************************************************************************)
(* parse_questions.  Its locals are the fields of a record; pc names the   *)
(* loop the scan is in, err the ParseError it raised (cause "none": none). *)
(***************************************************************************)
NoError == [cause |-> "none", start_line_no |-> 0, line_no |-> 0]

\* the raise statements with the 0-based index of the start line
ParseErrorZeroBased(s, cause, line_no) ==
  [s EXCEPT !.err = [cause |-> cause, start_line_no |-> s.start_idx,
                     line_no |-> line_no]]

\* the raise statements: "Malformed question near line {start_line_no}: ..."
ParseError(s, cause, line_no) ==
  [s EXCEPT !.err = [cause |-> cause, start_line_no |-> s.start_line_no,
                     line_no |-> line_no]]

ParseStart ==
  [pc |-> "scan", i |-> 0, questions |-> <<>>, discarded_lines |-> 0,
   start_idx |-> 0, start_line_no |-> 0, stem_lines |-> <<>>,
   choices |-> <<>>, seen_letters |-> {}, err |-> NoError]

\* the scan has returned or raised
Halted(s) == s.pc = "return" \/ s.err.cause # "none"

\* lines 68-69 with the count left alone for blank lines
DiscardLineSkipBlank(ls, s) ==
  [s EXCEPT !.discarded_lines = IF IsBlank(ls[s.i + 1]) THEN @ ELSE @ + 1,
            !.i = @ + 1]

\* lines 68-69: a line that starts no block is counted and skipped
DiscardLine(ls, s) ==
  [s EXCEPT !.discarded_lines = @ + 1, !.i = @ + 1]

\* lines 65-76: the top of the outer loop
ScanStep(ls, s) ==
  IF s.i >= Len(ls) THEN [s EXCEPT !.pc = "return"]
  ELSE LET qmatch == QUESTION_START_RE(ls[s.i + 1])
       IN  IF ~qmatch.ok THEN DiscardLine(ls, s)
           ELSE [s EXCEPT !.start_idx = s.i,
                          !.start_line_no = s.i + 1,
                          !.stem_lines = IF qmatch.g2 # <<>> THEN <<qmatch.g2>>
                                         ELSE <<>>,
                          !.i = @ + 1,
                          !.pc = "spacer"]

\* lines 79-80: blank lines after a standalone numbering line
SpacerStep(ls, s) ==
  IF s.i < Len(ls) /\ s.stem_lines = <<>> /\ IsBlank(ls[s.i + 1])
  THEN [s EXCEPT !.i = @ + 1]
  ELSE [s EXCEPT !.pc = "stem"]

\* lines 92-105 with the two checks in the other order
AfterStemEofFirst(ls, s) ==
  IF s.i >= Len(ls) THEN ParseError(s, "reached EOF before choices", 0)
  ELSE IF s.stem_lines = <<>>
  THEN ParseError(s, "missing question stem text before choices", 0)
  ELSE [s EXCEPT !.choices = <<>>, !.seen_letters = {}, !.pc = "choices"]

\* lines 92-105: the checks after the stem loop
AfterStem(ls, s) ==
  IF s.stem_lines = <<>>
  THEN ParseError(s, "missing question stem text before choices", 0)
  ELSE IF s.i >= Len(ls) THEN ParseError(s, "reached EOF before choices", 0)
  ELSE [s EXCEPT !.choices = <<>>, !.seen_letters = {}, !.pc = "choices"]

\* lines 83-105: the stem loop, then the checks after it
StemStep(ls, s) ==
  IF s.i < Len(ls) /\ ~CHOICE_RE(ls[s.i + 1]).ok
  THEN IF QUESTION_START_RE(ls[s.i + 1]).ok
       THEN ParseError(s, "missing choices before next question start", 0)
       ELSE [s EXCEPT !.stem_lines = Append(@, ls[s.i + 1]), !.i = @ + 1]
  ELSE AfterStem(ls, s)

\* lines 127-131: the letter-set check after the choice loop
AfterChoices(ls, s) ==
  IF s.seen_letters # {"A", "B", "C", "D"}
  THEN ParseError(s, "expected exactly one choice each for A, B, C, and D", 0)
  ELSE [s EXCEPT !.pc = "answer"]

\* lines 107-131: the choice loop, then the check after it
ChoiceStep(ls, s) ==
  IF s.i < Len(ls) /\ Len(s.choices) < 4
  THEN IF IsBlank(ls[s.i + 1]) THEN [s EXCEPT !.i = @ + 1]
       ELSE LET cmatch == CHOICE_RE(ls[s.i + 1])
                letter == cmatch.g1[1]
            IN  IF ~cmatch.ok
                THEN ParseError(s, "expected choice line A-D", s.i + 1)
                ELSE IF letter \in s.seen_letters
                THEN ParseError(s, "duplicate choice letter", s.i + 1)
                ELSE [s EXCEPT !.seen_letters = @ \cup {letter},
                               !.choices = Append(@, <<letter, cmatch.g2>>),
                               !.i = @ + 1]
  ELSE AfterChoices(ls, s)

\* line 153 without .upper()
AnswerLetterOfRaw(amatch) == amatch.g1[1]

\* line 153: amatch.group(1).upper()
AnswerLetterOf(amatch) == Upper(amatch.g1[1])

\* lines 149-157 without the i += 1 of line 157
AppendQuestionNoAdvance(s, amatch) ==
  [s EXCEPT !.questions =
              Append(@, [stem_lines |-> s.stem_lines,
                         choices |-> s.choices,
                         answer_letter |-> AnswerLetterOf(amatch),
                         start_line_no |-> s.start_line_no]),
            !.pc = "scan"]

\* lines 149-157: the Question is appended and the scan moves past the
\* Answer line, back to the top of the outer loop
AppendQuestion(s, amatch) ==
  [s EXCEPT !.questions =
              Append(@, [stem_lines |-> s.stem_lines,
                         choices |-> s.choices,
                         answer_letter |-> AnswerLetterOf(amatch),
                         start_line_no |-> s.start_line_no]),
            !.i = @ + 1,
            !.pc = "scan"]

\* lines 133-157: blank lines, the Answer line, the Question
AnswerStep(ls, s) ==
  IF s.i < Len(ls) /\ IsBlank(ls[s.i + 1]) THEN [s EXCEPT !.i = @ + 1]
  ELSE IF s.i >= Len(ls)
  THEN ParseError(s, "missing Answer line before EOF", 0)
  ELSE LET amatch == ANSWER_RE(ls[s.i + 1])
       IN  IF ~amatch.ok
           THEN ParseError(s, "expected 'Answer: <A-D>'", s.i + 1)
           ELSE AppendQuestion(s, amatch)

\* one step of the scan, by the loop it is in
ParseStep(ls, s) ==
  CASE s.pc = "scan"    -> ScanStep(ls, s)
    [] s.pc = "spacer"  -> SpacerStep(ls, s)
    [] s.pc = "stem"    -> StemStep(ls, s)
    [] s.pc = "choices" -> ChoiceStep(ls, s)
    [] s.pc = "answer"  -> AnswerStep(ls, s)

RECURSIVE ParseRun(_, _)
ParseRun(ls, s) == IF Halted(s) THEN s ELSE ParseRun(ls, ParseStep(ls, s))

\* parse_questions(lines): the scan run to its return or its ParseError
parse_questions(ls) == ParseRun(ls, ParseStart)

(***************************************************************************)
(* shuffle_questions.  rng.shuffle leaves the list in one of its           *)
(* orderings: perm[j] is the place in question.choices of the pair that    *)
(* ends at place j.                                                        *)
(***************************************************************************)
Letters == <<"A", "B", "C", "D">>

Permutations(n) ==
  {f \in [1..n -> 1..n] : \A a, b \in 1..n : f[a] = f[b] => a = b}

\* the least member of a non-empty set of numbers (next() takes the first)
First(S) == CHOOSE k \in S : \A m \in S : k <= m

\* line 170: the places of question.choices whose letter is answer_letter
CorrectPlaces(question) ==
  {k \in 1..Len(question.choices) :
     question.choices[k][1] = question.answer_letter}

\* lines 167-168: the shuffled copy of question.choices
Shuffled(question, perm) ==
  [j \in 1..Len(question.choices) |-> question.choices[perm[j]]]

\* line 177 with the letter left as it was in the source
NewAnswerLetterKept(question, perm) == question.answer_letter

\* lines 170-171 and 177: "ABCD"[correct_idx]
NewAnswerLetter(question, perm) ==
  LET shuffled == Shuffled(question, perm)
      correct_choice == question.choices[First(CorrectPlaces(question))]
      correct_idx ==
        First({idx \in 1..Len(shuffled) : shuffled[idx] = correct_choice})
  IN  Letters[correct_idx]

\* lines 173-179: the ShuffledQuestion of one question
ShuffleQuestion(question, perm) ==
  LET shuffled == Shuffled(question, perm)
  IN  [stem_lines |-> question.stem_lines,
       shuffled_choices |-> [j \in 1..Len(shuffled) |-> shuffled[j][2]],
       new_answer_letter |-> NewAnswerLetter(question, perm)]

(***************************************************************************)
(* The renderers.  A text is a sequence of characters, "\n" among them.    *)
(***************************************************************************)
\* str(n) for a number n >= 0
RECURSIVE DecStr(_)
DecStr(n) ==
  IF n < 10 THEN <<Digits[n + 1]>>
  ELSE DecStr(n \div 10) \o <<Digits[(n % 10) + 1]>>

\* "\n".join(out)
RECURSIVE Join(_)
Join(out) ==
  IF out = <<>> THEN <<>>
  ELSE IF Len(out) = 1 THEN out[1]
  ELSE out[1] \o <<"\n">> \o Join(Tail(out))

\* the first place >= k of text that holds "\n" (Len+1: none)
RECURSIVE LineEnd(_, _)
LineEnd(text, k) ==
  IF k <= Len(text) /\ text[k] # "\n" THEN LineEnd(text, k + 1) ELSE k

\* text.splitlines()
RECURSIVE SplitLines(_)
SplitLines(text) ==
  IF text = <<>> THEN <<>>
  ELSE LET e == LineEnd(text, 1)
       IN  <<SubSeq(text, 1, e - 1)>> \o SplitLines(Rest(text, e + 1))

\* lines 189-190: zip("ABCD", q.shuffled_choices)
ChoiceLines(q) ==
  LET m == IF Len(q.shuffled_choices) < 4 THEN Len(q.shuffled_choices) ELSE 4
  IN  [j \in 1..m |-> <<Letters[j], ".", " ">> \o q.shuffled_choices[j]]

\* lines 187 and 200 numbering from 0 (enumerate without start=1)
NumberLineFromZero(i, q) == DecStr(i - 1) \o <<".", " ">> \o q.stem_lines[1]

\* lines 187 and 200: f"{i}. {q.stem_lines[0]}"
NumberLine(i, q) == DecStr(i) \o <<".", " ">> \o q.stem_lines[1]

\* lines 187-193: what format_combined appends for question i
CombinedBlock(i, q) ==
  <<NumberLine(i, q)>> \o Tail(q.stem_lines) \o ChoiceLines(q)
    \o << <<>>, <<"A", "n", "s", "w", "e", "r", ":", " ", q.new_answer_letter>>,
          <<>> >>

\* lines 200-204: what format_questions_only appends for question i
QuestionsBlock(i, q) ==
  <<NumberLine(i, q)>> \o Tail(q.stem_lines) \o ChoiceLines(q) \o << <<>> >>

RECURSIVE CombinedOut(_, _)
CombinedOut(questions, i) ==
  IF i > Len(questions) THEN <<>>
  ELSE CombinedBlock(i, questions[i]) \o CombinedOut(questions, i + 1)

RECURSIVE QuestionsOut(_, _)
QuestionsOut(questions, i) ==
  IF i > Len(questions) THEN <<>>
  ELSE QuestionsBlock(i, questions[i]) \o QuestionsOut(questions, i + 1)

format_combined(questions) == Join(CombinedOut(questions, 1))

format_questions_only(questions) == Join(QuestionsOut(questions, 1))

format_answers_only(questions) ==
  LET out == [i \in 1..Len(questions) |->
                DecStr(i) \o <<".", " ", questions[i].new_answer_letter>>]
  IN  Join(out) \o (IF out # <<>> THEN <<"\n">> ELSE <<>>)

(***************************************************************************)
(* process_file.  A path is the sequence of the parts of its name.         *)
(***************************************************************************)
input_path == <<"in", ".txt">>

output_path == <<"out", ".txt">>

\* lines 215-217: with_suffix("") drops the suffix, with_name appends
BuildDefaultSplitPaths(target) ==
  LET base == SubSeq(target, 1, Len(target) - 1)
  IN  << base \o <<"_questions.txt">>, base \o <<"_answers.txt">> >>

None == <<>>

\* the keyword arguments process_file is called with (main, run_now)
Arguments ==
  [inplace : BOOLEAN, split_outputs : BOOLEAN,
   questions_out : {None, <<"q", ".txt">>},
   answers_out : {None, <<"a", ".txt">>}]

\* lines 237-254: the files process_file writes, in order
Writes(args, shuffled) ==
  LET target_output == IF args.inplace THEN input_path ELSE output_path
      split == IF args.questions_out = None \/ args.answers_out = None
               THEN BuildDefaultSplitPaths(target_output)
               ELSE <<args.questions_out, args.answers_out>>
  IN  IF args.split_outputs
      THEN << [path |-> split[1], text |-> format_questions_only(shuffled)],
              [path |-> split[2], text |-> format_answers_only(shuffled)] >>
      ELSE << [path |-> target_output, text |-> format_combined(shuffled)] >>

\* line 234 with a ParseError taken as the end of the input
ParsedOrRaised(s) == Halted(s)

\* line 234: parse_questions returned (it did not raise)
Parsed(s) == s.pc = "return" /\ s.err.cause = "none"

(***************************************************************************)
(* The lines the line-by-line specification feeds to the parser: one or    *)
(* two of every role a line can play.                                      *)
(***************************************************************************)
LineSamples ==
  { <<>>,                                              \* a blank line
    <<"E", ".", " ", "e">>,                            \* text
    <<"7", ".", " ", "Q">>,                            \* a start line
    <<"3", ".">>,                                      \* a standalone start
    <<"A", ".", " ", "a">>,
    <<"B", ".", " ", "b">>,
    <<"C", ".", " ", "c">>,
    <<"D", ".", " ", "d">>,
    <<"A", "n", "s", "w", "e", "r", ":", " ", "A">>,
    <<"a", "n", "s", "w", "e", "r", ":", "b", " ">> }

\* a block the scan accepts, with no line to spare
FirstBlock ==
  << <<"1", "2", ".", " ", "P">>,
     <<"B", ".", " ", "b">>,
     <<"A", ".", " ", "a">>,
     <<"D", ".", " ", "d">>,
     <<"C", ".", " ", "c">>,
     <<"A", "n", "s", "w", "e", "r", ":", " ", "D">> >>

\* a block the scan accepts after a line it discards, with a blank line
\* wherever a block may hold one
SpacedBlock ==
  << <<"E", ".", " ", "e">>,
     <<"3", ".">>,
     <<>>,
     <<"s", "t", "e", "m">>,
     <<"D", ".", " ", "d">>,
     <<>>,
     <<"C", ".", " ", "c">>,
     <<"B", ".", " ", "b">>,
     <<"A", ".", " ", "a">>,
     <<>>,
     <<"a", "n", "s", "w", "e", "r", ":", "b", " ">> >>

\* what the input may hold before the lines fed one by one
Prefixes == {<<>>, FirstBlock, SpacedBlock}

(***************************************************************************)
(* The input files of the whole-file specification: blocks put together    *)
(* from their parts, alone, in pairs, and followed by a malformed block.   *)
(***************************************************************************)
StemParts ==
  { << <<"7", ".", " ", "Q">> >>,
    << <<"3", ".">>, <<>>, <<" ", "E", ".", " ", "e">> >>,
    << <<" ", "4", "1", ".", " ", " ", "Q", " ">>, <<>>,
       <<"A", "n", "s", "w", "e", "r", ":", " ", "A">> >> }

ChoiceParts ==
  { << <<"A", ".", " ", "a">>, <<"B", ".", " ", "b">>,
       <<"C", ".", " ", "c">>, <<"D", ".", " ", "d">> >>,
    << <<"D", ".", " ", "x">>, <<>>, <<" ", "B", ".", " ", " ", "y", " ">>,
       <<"A", ".", " ">>, <<"C", ".", " ", "x">> >> }

AnswerParts ==
  { << <<"A", "n", "s", "w", "e", "r", ":", " ", "A">> >>,
    << <<>>, <<" ", "a", "n", "s", "w", "e", "r", " ", ":", "c", " ">> >> }

Blocks == {s \o c \o a : s \in StemParts, c \in ChoiceParts, a \in AnswerParts}

SecondBlocks ==
  {s \o c \o a :
     s \in StemParts,
     c \in { << <<"C", ".", " ", "c">>, <<"A", ".", " ", "a">>,
                <<"D", ".", " ", "d">>, <<"B", ".", " ", "b">> >> },
     a \in {<< <<"A", "N", "S", "W", "E", "R", ":", "B">> >>}}

Malformed ==
  { \* three choices, then the Answer line
    << <<"1", ".", " ", "Q">>, <<"A", ".", " ", "x">>, <<"B", ".", " ", "y">>,
       <<"C", ".", " ", "z">>,
       <<"A", "n", "s", "w", "e", "r", ":", " ", "A">> >>,
    \* a standalone start line, then the end of the input
    << <<"3", ".">>, <<>> >>,
    \* a repeated letter
    << <<"1", ".", " ", "Q">>, <<"A", ".", " ", "x">>, <<"A", ".", " ", "y">> >>,
    \* a start line in the stem
    << <<"1", ".", " ", "Q">>, <<"2", ".", " ", "R">> >>,
    \* no Answer line
    << <<"1", ".", " ", "Q">>, <<"A", ".", " ", "a">>, <<"B", ".", " ", "b">>,
       <<"C", ".", " ", "c">>, <<"D", ".", " ", "d">>, <<"E", ".", " ", "e">> >> }

InputFiles ==
  {<<>>}
    \cup {j \o b \o t : j \in {<<>>, << <<"E", ".", " ", "e">> >>},
                        b \in Blocks, t \in {<<>>, << <<>> >>}}
    \cup {b \o g \o c : b \in Blocks, g \in {<<>>, << <<>> >>},
                        c \in SecondBlocks}
    \cup Malformed
    \cup {b \o m : b \in Blocks, m \in Malformed}

NoResult == [kind |-> "running", processed |-> 0, discarded |-> 0]

VARIABLES
  lines,     \* the input lines the scan can see so far
  closed,    \* TRUE: lines is the whole input (n = Len(lines))
  fed,       \* how many of lines were fed one by one
  loose,     \* how many of those were no start, choice or Answer line
  p,         \* the locals of parse_questions
  shuffled,  \* shuffle_questions' list of ShuffledQuestion
  written,   \* the write_text calls made, in order
  result     \* how process_file ended

vars == <<lines, closed, fed, loose, p, shuffled, written, result>>

\* the scan of ls up to the top of the outer loop with every line consumed
RECURSIVE ScanAll(_, _)
ScanAll(ls, s) ==
  IF Halted(s) \/ (s.pc = "scan" /\ s.i = Len(ls)) THEN s
  ELSE ScanAll(ls, ParseStep(ls, s))

\* parse_questions is given its input line by line
Init ==
  /\ lines \in Prefixes
  /\ closed = FALSE
  /\ fed = 0
  /\ loose = 0
  /\ p = ScanAll(lines, ParseStart)
  /\ shuffled = <<>>
  /\ written = <<>>
  /\ result = NoResult

\* lines 230-234: process_file has read a whole file
InitFile ==
  /\ lines \in InputFiles
  /\ closed = TRUE
  /\ fed = 0
  /\ loose = 0
  /\ p = ParseStart
  /\ shuffled = <<>>
  /\ written = <<>>
  /\ result = NoResult

\* the scan is about to test i < n and the next line is not known yet
NeedsLine == ~Halted(p) /\ ~closed /\ p.i = Len(lines)

\* l, read where the scan is now, is no start, choice or Answer line
Loose(l) ==
  CASE p.pc = "scan" -> ~QUESTION_START_RE(l).ok
    [] p.pc \in {"spacer", "stem"} ->
         ~QUESTION_START_RE(l).ok /\ ~CHOICE_RE(l).ok
    [] OTHER -> IsBlank(l)

\* the input has one more line
Feed ==
  /\ NeedsLine
  /\ fed < MaxFed
  /\ \E l \in LineSamples :
       /\ Loose(l) => loose < MaxLoose
       /\ lines' = Append(lines, l)
       /\ loose' = IF Loose(l) THEN loose + 1 ELSE loose
  /\ fed' = fed + 1
  /\ UNCHANGED <<closed, p, shuffled, written, result>>

\* the input ends here
Close ==
  /\ NeedsLine
  /\ closed' = TRUE
  /\ UNCHANGED <<lines, fed, loose, p, shuffled, written, result>>

\* the scan knows whether i < n
CanStep == ~Halted(p) /\ (p.i < Len(lines) \/ closed)

Scan ==
  /\ CanStep /\ p.pc = "scan"
  /\ p' = ScanStep(lines, p)
  /\ UNCHANGED <<lines, closed, fed, loose, shuffled, written, result>>

Spacer ==
  /\ CanStep /\ p.pc = "spacer"
  /\ p' = SpacerStep(lines, p)
  /\ UNCHANGED <<lines, closed, fed, loose, shuffled, written, result>>

Stem ==
  /\ CanStep /\ p.pc = "stem"
  /\ p' = StemStep(lines, p)
  /\ UNCHANGED <<lines, closed, fed, loose, shuffled, written, result>>

Choices ==
  /\ CanStep /\ p.pc = "choices"
  /\ p' = ChoiceStep(lines, p)
  /\ UNCHANGED <<lines, closed, fed, loose, shuffled, written, result>>

Answer ==
  /\ CanStep /\ p.pc = "answer"
  /\ p' = AnswerStep(lines, p)
  /\ UNCHANGED <<lines, closed, fed, loose, shuffled, written, result>>

\* lines 166-179: one turn of the loop of shuffle_questions
Shuffle ==
  /\ result.kind = "running"
  /\ Parsed(p)
  /\ Len(shuffled) < Len(p.questions)
  /\ LET question == p.questions[Len(shuffled) + 1]
     IN  IF CorrectPlaces(question) = {}
         THEN /\ result' = [NoResult EXCEPT !.kind = "StopIteration"]
              /\ UNCHANGED shuffled
         ELSE /\ \E perm \in Permutations(Len(question.choices)) :
                   shuffled' = Append(shuffled, ShuffleQuestion(question, perm))
              /\ UNCHANGED result
  /\ UNCHANGED <<lines, closed, fed, loose, p, written>>

\* lines 237-259: the writes, and the summary process_file returns
Write ==
  /\ result.kind = "running"
  /\ Parsed(p)
  /\ Len(shuffled) = Len(p.questions)
  /\ \E args \in Arguments : written' = Writes(args, shuffled)
  /\ result' = [kind |-> "returned", processed |-> Len(shuffled),
                discarded |-> p.discarded_lines]
  /\ UNCHANGED <<lines, closed, fed, loose, p, shuffled>>

\* line 234: the ParseError leaves process_file (run_now shows it, line 327)
Raise ==
  /\ result.kind = "running"
  /\ p.err.cause # "none"
  /\ result' = [NoResult EXCEPT !.kind = "ParseError"]
  /\ UNCHANGED <<lines, closed, fed, loose, p, shuffled, written>>

Next == Feed \/ Close \/ Scan \/ Spacer \/ Stem \/ Choices \/ Answer

NextFile ==
  Scan \/ Spacer \/ Stem \/ Choices \/ Answer \/ Shuffle \/ Write \/ Raise

\* parse_questions on an input revealed line by line
Spec == Init /\ [][Next]_vars

\* process_file on a whole input file
SpecFile == InitFile /\ [][NextFile]_vars


(***************************************************************************)
(* Block extents, read off the input alone: a block runs from its start    *)
(* line to the first non-blank line after the fourth choice line that      *)
(* follows the start line.                                                 *)
(***************************************************************************)
\* the place of the m-th line after place k that CHOICE_RE matches
RECURSIVE NthChoiceAfter(_, _, _)
NthChoiceAfter(ls, k, m) ==
  IF k + 1 > Len(ls) THEN Len(ls) + 1
  ELSE IF CHOICE_RE(ls[k + 1]).ok
  THEN IF m = 1 THEN k + 1 ELSE NthChoiceAfter(ls, k + 1, m - 1)
  ELSE NthChoiceAfter(ls, k + 1, m)

\* the place of the first non-blank line after place k
RECURSIVE NextNonBlank(_, _)
NextNonBlank(ls, k) ==
  IF k + 1 > Len(ls) THEN Len(ls) + 1
  ELSE IF IsBlank(ls[k + 1]) THEN NextNonBlank(ls, k + 1) ELSE k + 1

BlockStart(k) == p.questions[k].start_line_no

BlockEnd(k) == NextNonBlank(lines, NthChoiceAfter(lines, BlockStart(k), 4))

\* the blocks of the questions, each as <<start line, Answer line>>
Extents == {<<BlockStart(k), BlockEnd(k)>> : k \in 1..Len(p.questions)}

\* the lines inside a block, the lines in none
Inside ==
  LET ext == Extents
  IN  {j \in 1..Len(lines) : \E e \in ext : e[1] <= j /\ j <= e[2]}

Outside ==
  LET ext == Extents
  IN  {j \in 1..Len(lines) : \A e \in ext : j < e[1] \/ e[2] < j}

RECURSIVE ExtentSum(_)
ExtentSum(k) ==
  IF k = 0 THEN 0 ELSE ExtentSum(k - 1) + (BlockEnd(k) - BlockStart(k) + 1)

\* parse_questions has returned its questions and its count
Returned == p.pc = "return" /\ p.err.cause = "none"

\* parse_questions has raised
Raised == p.err.cause # "none"

\* the input has ended where the scan stands
AtEof == closed /\ p.i = Len(lines)

\* the start line of the block the scan is in, read off the input: the last
\* line up to place j that QUESTION_START_RE matches
LastStartUpTo(j) ==
  CHOOSE k \in 1..j :
    /\ QUESTION_START_RE(lines[k]).ok
    /\ \A m \in (k + 1)..j : ~QUESTION_START_RE(lines[m]).ok

(***************************************************************************)
(* C4.  As claimed: on a successful parse the blank lines that follow a    *)
(* block's Answer line, outside every block, are not in the discarded      *)
(* count (the count is that of the other lines outside the blocks).        *)
(***************************************************************************)
C4_BlankAfterBlockNotCounted ==
  Returned =>
    LET outside == Outside
    IN  p.discarded_lines =
          Cardinality({j \in outside :
                         ~(IsBlank(lines[j]) /\ Len(p.questions) > 0
                             /\ j > BlockStart(1))})

(***************************************************************************)
(* C4, amended.  On a successful parse every blank line that follows a     *)
(* block's Answer line and lies outside every block is counted as          *)
(* discarded, like any other line outside the blocks; the blank lines      *)
(* inside a block are the ones consumed without being counted.             *)
(***************************************************************************)
C4_BlankAfterBlockCounted ==
  Returned =>
    LET outside == Outside
        blankAfter == {j \in outside : IsBlank(lines[j])
                                         /\ Len(p.questions) > 0
                                         /\ j > BlockStart(1)}
        others == outside \ blankAfter
    IN  /\ p.discarded_lines = Cardinality(blankAfter) + Cardinality(others)
        /\ p.discarded_lines + Cardinality(Inside) = Len(lines)

\* a blank line between two blocks, and blank lines inside a block
C4_Witness ==
  /\ Returned
  /\ Len(p.questions) = 2
  /\ \E j \in Outside : IsBlank(lines[j]) /\ BlockStart(1) < j
                          /\ j < BlockStart(2)
  /\ \E j \in Inside : IsBlank(lines[j])

(***************************************************************************)
(* C5.  As claimed: a block with a stem, fewer than four choice lines and  *)
(* then a well-formed Answer line is rejected with the cause "expected     *)
(* exactly one choice each for A, B, C, and D", at the block's start line. *)
(***************************************************************************)
C5_TooFewChoicesLetterSetError ==
  (/\ p.pc = "choices" /\ CanStep /\ p.i < Len(lines)
   /\ Len(p.choices) < 4
   /\ ANSWER_RE(lines[p.i + 1]).ok)
    => LET e == ParseStep(lines, p).err
       IN  /\ e.cause = "expected exactly one choice each for A, B, C, and D"
           /\ e.start_line_no = LastStartUpTo(p.i)

(***************************************************************************)
(* C5, amended.  A block with a stem, at least one and fewer than four     *)
(* choice lines and then a well-formed Answer line is rejected with the    *)
(* cause "expected choice line A-D" (raised at the Answer line), and the   *)
(* error names the 1-based number of the block's start line.  (With no     *)
(* choice line the Answer line is taken as a stem line.)                   *)
(***************************************************************************)
C5_TooFewChoicesExpectedChoiceLine ==
  /\ (/\ p.pc = "choices" /\ CanStep /\ p.i < Len(lines)
      /\ Len(p.choices) < 4
      /\ ANSWER_RE(lines[p.i + 1]).ok)
       => LET e == ParseStep(lines, p).err
          IN  /\ Len(p.choices) >= 1
              /\ e.cause = "expected choice line A-D"
              /\ e.line_no = p.i + 1
              /\ e.start_line_no = LastStartUpTo(p.i)
  /\ (p.pc = "stem" /\ CanStep /\ p.i < Len(lines)
      /\ ANSWER_RE(lines[p.i + 1]).ok)
       => LET s == ParseStep(lines, p)
          IN  s.err.cause = "none"
                /\ s.stem_lines = Append(p.stem_lines, lines[p.i + 1])

\* the error is raised for a block that does not start on line 1
C5_Witness ==
  /\ Raised /\ p.pc = "choices" /\ p.i < Len(lines)
  /\ ANSWER_RE(lines[p.i + 1]).ok
  /\ Len(p.choices) = 3
  /\ p.err.cause = "expected choice line A-D"
  /\ p.err.start_line_no > 1

(***************************************************************************)
(* C6.  Every Question parse_questions has appended has at least one stem  *)
(* line, exactly four choices whose letters are A, B, C and D, each once,  *)
(* and an upper-case answer_letter among them, so that the look-up of the  *)
(* correct choice in shuffle_questions finds a choice.                     *)
(***************************************************************************)
C6_QuestionWellFormed ==
  \A k \in 1..Len(p.questions) :
    LET q == p.questions[k]
    IN  /\ Len(q.stem_lines) >= 1
        /\ Len(q.choices) = 4
        /\ \A l \in {"A", "B", "C", "D"} :
             Cardinality({j \in 1..4 : q.choices[j][1] = l}) = 1
        /\ q.answer_letter \in {"A", "B", "C", "D"}
        /\ CorrectPlaces(q) # {}

\* a Question whose Answer line gave the letter in lower case, and whose
\* choices did not come in the order A, B, C, D
C6_Witness ==
  /\ Returned
  /\ fed >= 6
  /\ \E k \in 1..Len(p.questions) :
       LET q == p.questions[k]
       IN  /\ BlockStart(k) > Len(lines) - fed
           /\ q.answer_letter = "B"
           /\ lines[BlockEnd(k)][Len(lines[BlockEnd(k)]) - 1] = "b"
           /\ q.choices[1][1] # "A"

(***************************************************************************)
(* C8.  As claimed: when the input ends while the scan is still collecting *)
(* the stem of a block (no choice line found), the cause is "reached EOF   *)
(* before choices", also when the start line has no text and only blank    *)
(* lines or nothing follow it.                                             *)
(***************************************************************************)
C8_EofInStemAlwaysEofCause ==
  (p.pc = "stem" /\ ~Halted(p) /\ AtEof)
    => ParseStep(lines, p).err.cause = "reached EOF before choices"

(***************************************************************************)
(* C8, amended.  When the input ends while the scan is still collecting    *)
(* the stem of a block, the cause is "reached EOF before choices" if at    *)
(* least one stem line was collected; if none was (the start line has no   *)
(* text and only blank lines or nothing follow it) the cause is "missing   *)
(* question stem text before choices".                                     *)
(***************************************************************************)
C8_EofInStemCause ==
  (p.pc = "stem" /\ ~Halted(p) /\ AtEof)
    => LET e == ParseStep(lines, p).err
           start == LastStartUpTo(Len(lines))
           bare == /\ QUESTION_START_RE(lines[start]).g2 = <<>>
                   /\ \A j \in (start + 1)..Len(lines) : IsBlank(lines[j])
       IN  /\ bare <=> p.stem_lines = <<>>
           /\ e.cause = IF bare
                        THEN "missing question stem text before choices"
                        ELSE "reached EOF before choices"
           /\ e.start_line_no = start

\* a start line without text, a stem line after it, then the end of input
C8_Witness ==
  /\ Raised /\ p.pc = "stem" /\ AtEof
  /\ p.err.cause = "reached EOF before choices"
  /\ QUESTION_START_RE(lines[p.err.start_line_no]).g2 = <<>>
  /\ p.err.start_line_no > 1

(***************************************************************************)
(* C9.  On a successful parse the blocks (start line to Answer line) lie   *)
(* in the input in order without overlapping, every line is in exactly one *)
(* block or counted once as discarded: the discarded count is the number   *)
(* of lines in no block, and with the sizes of the blocks it adds up to    *)
(* the number of input lines.                                              *)
(***************************************************************************)
C9_LinesAccounted ==
  Returned =>
    LET N == Len(p.questions)
        outside == Outside
    IN  /\ \A k \in 1..N :
             /\ 1 <= BlockStart(k) /\ BlockStart(k) < BlockEnd(k)
             /\ BlockEnd(k) <= Len(lines)
             /\ QUESTION_START_RE(lines[BlockStart(k)]).ok
             /\ ANSWER_RE(lines[BlockEnd(k)]).ok
        /\ \A k \in 1..(N - 1) : BlockEnd(k) < BlockStart(k + 1)
        /\ p.discarded_lines = Cardinality(outside)
        /\ p.discarded_lines + ExtentSum(N) = Len(lines)
        /\ \A j \in outside : ~QUESTION_START_RE(lines[j]).ok

\* two blocks, a line in neither, and a block longer than six lines
C9_Witness ==
  /\ Returned
  /\ Len(p.questions) = 2
  /\ p.discarded_lines >= 1
  /\ \E k \in 1..2 : BlockEnd(k) - BlockStart(k) + 1 > 6

(***************************************************************************)
(* C10.  Once four choice lines are collected without a duplicate-letter   *)
(* error the letter-set check passes; the error "expected exactly one      *)
(* choice each for A, B, C, and D" is raised if and only if the input ends *)
(* during choice collection with fewer than four choices collected.        *)
(***************************************************************************)
C10_LetterSetErrorIffEof ==
  LET cause == "expected exactly one choice each for A, B, C, and D"
      endsInChoices == p.pc = "choices" /\ AtEof /\ Len(p.choices) < 4
  IN  /\ (p.pc = "choices" /\ Len(p.choices) = 4)
           => p.seen_letters = {"A", "B", "C", "D"}
      /\ (~Halted(p) /\ CanStep)
           => (ParseStep(lines, p).err.cause = cause <=> endsInChoices)
      /\ (Raised /\ p.err.cause = cause)
           => /\ endsInChoices
              /\ Len(p.choices) >= 1
              /\ \E j \in 1..Len(lines) :
                   /\ CHOICE_RE(lines[j]).ok
                   /\ \A m \in (j + 1)..Len(lines) : IsBlank(lines[m])

\* the input ends after three choices and a blank line
C10_Witness ==
  /\ Raised
  /\ p.err.cause = "expected exactly one choice each for A, B, C, and D"
  /\ Len(p.choices) = 3
  /\ IsBlank(lines[Len(lines)])


(***************************************************************************)
(* What the input holds for the stem of the k-th block: the text of the    *)
(* start line, if any, and the lines up to the first choice line (without  *)
(* the blank lines that follow a start line that has no text).             *)
(***************************************************************************)
RECURSIVE DropBlank(_)
DropBlank(ls) ==
  IF ls # <<>> /\ IsBlank(ls[1]) THEN DropBlank(Tail(ls)) ELSE ls

StemInInput(k) ==
  LET start == BlockStart(k)
      text == QUESTION_START_RE(lines[start]).g2
      body == SubSeq(lines, start + 1, NthChoiceAfter(lines, start, 1) - 1)
  IN  IF text # <<>> THEN <<text>> \o body ELSE DropBlank(body)

IsStartLine(l) == QUESTION_START_RE(l).ok

\* the digits of the lines of a text that QUESTION_START_RE matches, in order
StartNumbers(text) ==
  LET starts == SelectSeq(SplitLines(text), IsStartLine)
  IN  [j \in 1..Len(starts) |-> QUESTION_START_RE(starts[j]).g1]

\* A=0, B=1, C=2, D=3 (here from 1)
LetterPlace(l) == CHOOSE j \in 1..4 : Letters[j] = l

\* the text of the choice of q whose original letter is answer_letter
OriginalText(q) ==
  LET c == CHOOSE c \in {q.choices[k] : k \in 1..Len(q.choices)} :
             c[1] = q.answer_letter
  IN  c[2]

\* shuffle_questions has returned
AllShuffled == p.pc = "return" /\ Len(shuffled) = Len(p.questions)

(***************************************************************************)
(* C1.  In every ShuffledQuestion the text at the place of                 *)
(* shuffled_choices that new_answer_letter names is the text of the        *)
(* source Question's choice whose original letter is answer_letter.        *)
(***************************************************************************)
C1_CorrectTextKept ==
  \A k \in 1..Len(shuffled) :
    /\ shuffled[k].new_answer_letter \in {"A", "B", "C", "D"}
    /\ shuffled[k].shuffled_choices[LetterPlace(shuffled[k].new_answer_letter)]
         = OriginalText(p.questions[k])

\* the shuffle moved the correct choice of a question whose choices came in
\* another order than A, B, C, D
C1_Witness ==
  /\ AllShuffled
  /\ \E k \in 1..Len(shuffled) :
       /\ shuffled[k].new_answer_letter # p.questions[k].answer_letter
       /\ p.questions[k].choices[1][1] # "A"
       /\ shuffled[k].shuffled_choices
            # [j \in 1..4 |-> p.questions[k].choices[j][2]]

(***************************************************************************)
(* C2.  For every accepted input and every permutation, the combined       *)
(* rendering, split into lines and parsed again, parses without error to   *)
(* the same number of questions, each with the stem_lines of the original  *)
(* question at its place and with four choice texts that are a permutation *)
(* of the original four.                                                   *)
(***************************************************************************)
C2_RoundTrip ==
  (AllShuffled /\ result.kind = "running") =>
    LET again == parse_questions(SplitLines(format_combined(shuffled)))
    IN  /\ again.pc = "return" /\ again.err.cause = "none"
        /\ Len(again.questions) = Len(p.questions)
        /\ \A k \in 1..Len(p.questions) :
             /\ again.questions[k].stem_lines = p.questions[k].stem_lines
             /\ \E perm \in Permutations(4) :
                  \A j \in 1..4 :
                    again.questions[k].choices[j][2]
                      = p.questions[k].choices[perm[j]][2]

(***************************************************************************)
(* C3.  If parse_questions raises a ParseError, on whichever block,        *)
(* process_file writes no file at all (no combined output, no split file,  *)
(* no input file in place): every write comes after the whole input has    *)
(* parsed.                                                                 *)
(***************************************************************************)
C3_NoWriteOnParseError ==
  /\ p.err.cause # "none" => (written = <<>> /\ shuffled = <<>>)
  /\ written # <<>> =>
       (p.pc = "return" /\ p.err.cause = "none" /\ p.i = Len(lines))
  /\ result.kind = "ParseError" => p.err.cause # "none"

\* the ParseError of a block that follows a valid block has left process_file
C3_Witness ==
  /\ result.kind = "ParseError"
  /\ Len(p.questions) >= 1
  /\ written = <<>>

(***************************************************************************)
(* C7.  The k-th record of shuffle_questions carries the stem_lines of the *)
(* k-th block of the input (none dropped, none twice), and every renderer  *)
(* numbers the questions 1..N in that order, whatever digits the start     *)
(* lines of the source had.                                                *)
(***************************************************************************)
C7_OrderKeptRenumbered ==
  /\ Len(shuffled) <= Len(p.questions)
  /\ \A k \in 1..Len(shuffled) :
       /\ shuffled[k].stem_lines = StemInInput(k)
       /\ k > 1 => BlockStart(k - 1) < BlockStart(k)
  /\ result.kind = "returned" =>
       /\ AllShuffled
       /\ \A n \in 1..Len(written) :
            StartNumbers(written[n].text)
              = [k \in 1..Len(p.questions) |-> <<Digits[k + 1]>>]

\* two questions with different stems, from start lines with other digits
\* than 1 and 2, were written to the two split files
C7_Witness ==
  /\ result.kind = "returned"
  /\ Len(shuffled) = 2
  /\ shuffled[1].stem_lines # shuffled[2].stem_lines
  /\ \A k \in 1..2 :
       QUESTION_START_RE(lines[BlockStart(k)]).g1 # <<Digits[k + 1]>>
  /\ Len(written) = 2

=============================================================================
